---- MODULE Spec2Model ----
(***************************************************************************)
(* Freight delay notification: the workflow freightDelayNotificationWorkflow,*)
(* the activities it calls through proxyActivities, the services behind    *)
(* them, and the durable execution of the workflow (recorded activity      *)
(* results, bounded retries, restart of the workflow code by replay).      *)
(*                                                                         *)
(* Texts are sequences of string tokens; an absent optional text is <<>>.  *)
(***************************************************************************)
EXTENDS Integers, Sequences, FiniteSets, TLC

VARIABLES
    input,        \* DelayNotificationInput of the instance
    pc,           \* the await the workflow code stands at (volatile)
    awaiting,     \* TRUE once the call at pc is issued and its outcome awaited
    v,            \* the workflow function's local variables (volatile)
    cursor,       \* history events already consumed by the running code
    history,      \* recorded events of the instance (durable)
    attempt,      \* attempt number of the activity in flight, 0 when none
    restarts,     \* restarts of the workflow code so far
    completions,  \* per await, how often its activity body ran to completion
    deliveries,   \* per channel, how many notifications the provider sent out
    retry,        \* the retry policy the activities run under
    backoff,      \* seconds waited before the attempt in flight, 0 before a first
    clock,        \* Date.now() of the client, in milliseconds
    executions,   \* the workflow executions the service holds, in start order
    queue,        \* the tasks waiting in the task queue
    held,         \* per worker process, the tasks it has polled and not completed
    up,           \* TRUE while the service (history and task queue) is reachable
    slots,        \* per task kind, executions in progress on one worker
    backlog,      \* per task kind, tasks waiting for that worker
    call,         \* a call of a service method: its name and arguments
    reply,        \* what the service method returned for call
    cancelRequested \* TRUE once cancellation of the instance is requested

workflowVars ==
    <<input, pc, awaiting, v, cursor, history, attempt, restarts, completions,
      deliveries, retry, backoff>>

dispatchVars == <<clock, executions, queue, held, up>>

workerVars == <<slots, backlog>>

serviceVars == <<call, reply>>

\* Everything outside the execution of one instance.
envVars == <<dispatchVars, workerVars, serviceVars, cancelRequested>>

vars == <<workflowVars, envVars>>

-----------------------------------------------------------------------------
(* Bounds and program constants *)

MaxRestarts == 1

MaxPolicyAttempts == 5

MaximumAttempts == 3

\* retry: { initialInterval: '1 second', maximumInterval: '10 seconds',
\*          backoffCoefficient: 2 }, in seconds
InitialInterval == 1

MaximumInterval == 10

BackoffCoefficient == 2

NormalDurationMinutes == 120

-----------------------------------------------------------------------------
(* Input data *)

NewYork == <<"N", "Y">>
Philadelphia == <<"P", "A">>

Places == {NewYork, Philadelphia, <<>>, <<" ">>}

Routes ==
    { [origin |-> NewYork, destination |-> Philadelphia],
      [origin |-> <<>>, destination |-> Philadelphia],
      [origin |-> <<" ">>, destination |-> Philadelphia],
      [origin |-> NewYork, destination |-> <<>>] }

Emails == { <<"c", "@", "x">>, <<"c", "x">> }

Thresholds == {-1, 30, 50}

Delays == {0, 30, 45}

NoData == [none |-> TRUE]

Void == [void |-> TRUE]

Range(s) == { s[i] : i \in 1..Len(s) }

-----------------------------------------------------------------------------
(* services/trafficService.ts *)

RECURSIVE TrimStart(_)
TrimStart(s) ==
    IF s # <<>> /\ Head(s) = " " THEN TrimStart(Tail(s)) ELSE s

RECURSIVE TrimEnd(_)
TrimEnd(s) ==
    IF s # <<>> /\ s[Len(s)] = " " THEN TrimEnd(SubSeq(s, 1, Len(s) - 1)) ELSE s

Trim(s) == TrimEnd(TrimStart(s))

validateRouteUntrimmed(route) ==
    /\ route.origin # <<>>
    /\ route.destination # <<>>

validateRoute(route) ==
    /\ route.origin # <<>>
    /\ route.destination # <<>>
    /\ Len(Trim(route.origin)) > 0
    /\ Len(Trim(route.destination)) > 0

TrafficConditionInclusive(baseDelayMinutes) ==
    IF baseDelayMinutes <= 15 THEN <<"light">>
    ELSE IF baseDelayMinutes <= 30 THEN <<"moderate">>
    ELSE IF baseDelayMinutes <= 45 THEN <<"heavy">>
    ELSE <<"severe">>

\* if (baseDelayMinutes < 15) .. else if (< 30) .. else if (< 45) .. else
TrafficCondition(baseDelayMinutes) ==
    IF baseDelayMinutes < 15 THEN <<"light">>
    ELSE IF baseDelayMinutes < 30 THEN <<"moderate">>
    ELSE IF baseDelayMinutes < 45 THEN <<"heavy">>
    ELSE <<"severe">>

getMockTrafficDataNormalized(route, baseDelayMinutes) ==
    [ estimatedDelayMinutes |-> baseDelayMinutes,
      normalDurationMinutes |-> NormalDurationMinutes,
      currentDurationMinutes |-> NormalDurationMinutes + baseDelayMinutes,
      trafficCondition |-> TrafficCondition(baseDelayMinutes),
      route |-> [origin |-> Trim(route.origin), destination |-> Trim(route.destination)] ]

getMockTrafficData(route, baseDelayMinutes) ==
    [ estimatedDelayMinutes |-> baseDelayMinutes,
      normalDurationMinutes |-> NormalDurationMinutes,
      currentDurationMinutes |-> NormalDurationMinutes + baseDelayMinutes,
      trafficCondition |-> TrafficCondition(baseDelayMinutes),
      route |-> route ]

\* getTrafficData: the mock draws the delay at random on every call.
getTrafficData(route) == { getMockTrafficData(route, d) : d \in Delays }

-----------------------------------------------------------------------------
(* services/notificationService.ts *)

\* `msg_${Date.now()}_${random}`: the clock and the random part take any value.
Nonces == {"1", "2"}

EmailFailure == <<"Notification service unavailable">>

SMSFailure == <<"SMS service unavailable">>

Delivered(messageId) == [success |-> TRUE, messageId |-> messageId, error |-> <<>>]

RejectedSilent(reason) == [success |-> FALSE, messageId |-> <<>>, error |-> <<>>]

Rejected(reason) == [success |-> FALSE, messageId |-> <<>>, error |-> reason]

simulateEmailSending(request) == { Delivered(<<"msg_", n>>) : n \in Nonces }

simulateSMSSending(request, smsMessage) == { Delivered(<<"sms_", n>>) : n \in Nonces }

createSMSMessage(request) ==
    <<"Freight Delay Alert: Your delivery is delayed by ",
      ToString(request.delayMinutes),
      " minutes due to traffic conditions. We apologize for the inconvenience. - Freight Team">>

\* NotificationService.sendDelayNotification: the provider call either answers
\* or throws, and the catch turns the exception into a rejected response.
serviceSendDelayNotification(request) ==
    simulateEmailSending(request) \cup { Rejected(EmailFailure) }

serviceSendSMSNotification(request) ==
    simulateSMSSending(request, createSMSMessage(request)) \cup { Rejected(SMSFailure) }

includes(s, ch) == \E i \in 1..Len(s) : s[i] = ch

validateRequest(request) ==
    /\ request.customerEmail # <<>>
    /\ includes(request.customerEmail, "@")
    /\ request.subject # <<>>
    /\ request.message # <<>>
    /\ request.delayMinutes > 0

createDelaySubject(delayMinutes) ==
    <<"Freight Delivery Delay Notice - ", ToString(delayMinutes), " Minutes">>

-----------------------------------------------------------------------------
(* services/aiService.ts *)

aiValidateRequest(request) ==
    /\ request.delayMinutes > 0
    /\ request.route.origin # <<>>
    /\ request.route.destination # <<>>
    /\ request.trafficCondition # <<>>

AIFailure == <<"AI service unavailable">>

aiText(request) ==
    <<"AI: ", ToString(request.delayMinutes), " minute delay, ">>
        \o request.trafficCondition \o <<" traffic">>

fallbackTemplate(request) ==
    <<"Template: your delivery is delayed by ", ToString(request.delayMinutes), " minutes">>

generateDelayMessage(request) ==
    { [message |-> aiText(request), success |-> TRUE, error |-> <<>>],
      [message |-> fallbackTemplate(request), success |-> FALSE, error |-> AIFailure] }

-----------------------------------------------------------------------------
(* activities/index.ts: what one execution of an activity body can do *)

Return(x) == [threw |-> FALSE, value |-> x, error |-> <<>>]

Throw(message) == [threw |-> TRUE, value |-> Void, error |-> message]

fetchTrafficData(route) ==
    IF ~validateRoute(route)
    THEN { Throw(<<"Invalid route: Origin and destination are required">>) }
    ELSE { Return(td) : td \in getTrafficData(route) }

generateAIMessage(request) ==
    IF ~aiValidateRequest(request)
    THEN { Throw(<<"Invalid AI message request: Missing required fields">>) }
    ELSE { Return(r) : r \in generateDelayMessage(request) }

sendDelayNotificationRaising(request) ==
    IF ~validateRequest(request)
    THEN { Throw(<<"Invalid notification request: Missing required fields">>) }
    ELSE { IF r.success THEN Return(r) ELSE Throw(r.error) :
             r \in serviceSendDelayNotification(request) }

sendDelayNotification(request) ==
    IF ~validateRequest(request)
    THEN { Throw(<<"Invalid notification request: Missing required fields">>) }
    ELSE { Return(r) : r \in serviceSendDelayNotification(request) }

sendSMSNotification(request) ==
    { Return(r) : r \in serviceSendSMSNotification(request) }

shouldSendNotificationAtThreshold(delayMinutes, thresholdMinutes) ==
    delayMinutes >= thresholdMinutes

shouldSendNotification(delayMinutes, thresholdMinutes) ==
    delayMinutes > thresholdMinutes

createNotificationRequest(customerEmail, aiMessage, delayMinutes) ==
    [ customerEmail |-> customerEmail,
      subject |-> createDelaySubject(delayMinutes),
      message |-> aiMessage,
      delayMinutes |-> delayMinutes ]

createAIMessageRequest(trafficData) ==
    [ delayMinutes |-> trafficData.estimatedDelayMinutes,
      route |-> trafficData.route,
      trafficCondition |-> trafficData.trafficCondition ]

\* The activities export: the body run for an activity task of this name.
activities(name, args) ==
    CASE name = "fetchTrafficData" -> fetchTrafficData(args.route)
      [] name = "generateAIMessage" -> generateAIMessage(args.request)
      [] name = "sendDelayNotification" -> sendDelayNotification(args.request)
      [] name = "sendSMSNotification" -> sendSMSNotification(args.request)
      [] name = "shouldSendNotification" ->
            { Return(shouldSendNotification(args.delayMinutes, args.thresholdMinutes)) }
      [] name = "createNotificationRequest" ->
            { Return(createNotificationRequest(args.customerEmail, args.aiMessage,
                                               args.delayMinutes)) }
      [] name = "logWorkflowStep" -> { Return(Void) }
      [] name = "createAIMessageRequest" ->
            { Return(createAIMessageRequest(args.trafficData)) }

-----------------------------------------------------------------------------
(* workflows/freightDelayWorkflow.ts: freightDelayNotificationWorkflow *)

\* The awaits of the workflow function, in source order.
CallLabels ==
    { "LogStarted", "LogStep1", "Fetch", "LogStep1Done", "LogStep2", "ShouldNotify",
      "LogNoNotify", "LogStep3", "CreateAIRequest", "GenerateAI", "LogAIWarning",
      "LogAIDone", "LogStep4", "CreateRequest", "SendEmail", "LogEmailDone",
      "LogEmailWarning", "SendSMS", "LogSMSDone", "LogBothFailed", "LogError" }

InitialLocals ==
    [ trafficData |-> NoData,
      shouldNotify |-> FALSE,
      aiRequest |-> NoData,
      aiResponse |-> NoData,
      notificationRequest |-> NoData,
      notificationResponse |-> NoData,
      smsResponse |-> NoData,
      error |-> <<>>,
      result |-> NoData ]

Call(name, args) == [name |-> name, args |-> args]

FallbackRequestRebuilt(w) ==
    [w.notificationRequest EXCEPT !.message = createSMSMessage(w.notificationRequest)]

\* sendSMSNotification(notificationRequest): the request the fallback is given.
FallbackRequest(w) == w.notificationRequest

Log(stepName, data) == Call("logWorkflowStep", [stepName |-> stepName, data |-> data])

\* The activity call issued at each await, with its arguments.
CallAt(l, in, w) ==
    CASE l = "LogStarted" ->
            Log("Workflow Started",
                [ route |-> in.route, customerEmail |-> in.customerEmail,
                  threshold |-> in.delayThresholdMinutes ])
      [] l = "LogStep1" -> Log("Step 1: Fetching Traffic Data", NoData)
      [] l = "Fetch" -> Call("fetchTrafficData", [route |-> in.route])
      [] l = "LogStep1Done" ->
            Log("Step 1 Complete: Traffic Data Retrieved",
                [ delay |-> w.trafficData.estimatedDelayMinutes,
                  condition |-> w.trafficData.trafficCondition ])
      [] l = "LogStep2" -> Log("Step 2: Checking Delay Threshold", NoData)
      [] l = "ShouldNotify" ->
            Call("shouldSendNotification",
                 [ delayMinutes |-> w.trafficData.estimatedDelayMinutes,
                   thresholdMinutes |-> in.delayThresholdMinutes ])
      [] l = "LogNoNotify" ->
            Log("Step 2 Complete: No Notification Required",
                [ delay |-> w.trafficData.estimatedDelayMinutes,
                  threshold |-> in.delayThresholdMinutes ])
      [] l = "LogStep3" -> Log("Step 3: Generating AI Message", NoData)
      [] l = "CreateAIRequest" ->
            Call("createAIMessageRequest", [trafficData |-> w.trafficData])
      [] l = "GenerateAI" -> Call("generateAIMessage", [request |-> w.aiRequest])
      [] l = "LogAIWarning" ->
            Log("Step 3 Warning: AI Message Generation Failed",
                [error |-> w.aiResponse.error, usingFallback |-> TRUE])
      [] l = "LogAIDone" -> Log("Step 3 Complete: AI Message Generated", NoData)
      [] l = "LogStep4" -> Log("Step 4: Sending Notification", NoData)
      [] l = "CreateRequest" ->
            Call("createNotificationRequest",
                 [ customerEmail |-> in.customerEmail,
                   aiMessage |-> w.aiResponse.message,
                   delayMinutes |-> w.trafficData.estimatedDelayMinutes ])
      [] l = "SendEmail" ->
            Call("sendDelayNotification", [request |-> w.notificationRequest])
      [] l = "LogEmailDone" ->
            Log("Step 4 Complete: Notification Sent Successfully",
                [ messageId |-> w.notificationResponse.messageId,
                  customer |-> in.customerEmail ])
      [] l = "LogEmailWarning" ->
            Log("Step 4 Warning: Notification Failed",
                [error |-> w.notificationResponse.error, tryingSMS |-> TRUE])
      [] l = "SendSMS" ->
            Call("sendSMSNotification", [request |-> FallbackRequest(w)])
      [] l = "LogSMSDone" ->
            Log("Step 4 Complete: SMS Notification Sent",
                [messageId |-> w.smsResponse.messageId])
      [] l = "LogBothFailed" ->
            Log("Step 4 Failed: Both Email and SMS Failed",
                [ emailError |-> w.notificationResponse.error,
                  smsError |-> w.smsResponse.error ])
      [] l = "LogError" -> Log("Workflow Error", [error |-> w.error])

WorkflowResult(delayDetected, delayMinutes, notificationSent, message, error) ==
    [ delayDetected |-> delayDetected,
      delayMinutes |-> delayMinutes,
      notificationSent |-> notificationSent,
      message |-> message,
      error |-> error ]

NoNotificationResultZero(in, w) ==
    WorkflowResult(FALSE, 0, FALSE,
        <<"No notification required. Delay of ",
          ToString(w.trafficData.estimatedDelayMinutes),
          " minutes is below threshold of ",
          ToString(in.delayThresholdMinutes), " minutes.">>,
        <<>>)

NoNotificationResult(in, w) ==
    WorkflowResult(FALSE, w.trafficData.estimatedDelayMinutes, FALSE,
        <<"No notification required. Delay of ",
          ToString(w.trafficData.estimatedDelayMinutes),
          " minutes is below threshold of ",
          ToString(in.delayThresholdMinutes), " minutes.">>,
        <<>>)

EmailSentResult(in, w) ==
    WorkflowResult(TRUE, w.trafficData.estimatedDelayMinutes, TRUE,
        <<"Delay notification sent successfully. Customer ">> \o in.customerEmail
            \o <<" has been notified of ",
                 ToString(w.trafficData.estimatedDelayMinutes), " minute delay.">>,
        <<>>)

SMSSentResultUndetected(in, w) ==
    WorkflowResult(FALSE, w.trafficData.estimatedDelayMinutes, TRUE,
        <<"Delay notification sent via SMS after email failed. Customer notified of ",
          ToString(w.trafficData.estimatedDelayMinutes), " minute delay.">>,
        <<>>)

SMSSentResult(in, w) ==
    WorkflowResult(TRUE, w.trafficData.estimatedDelayMinutes, TRUE,
        <<"Delay notification sent via SMS after email failed. Customer notified of ",
          ToString(w.trafficData.estimatedDelayMinutes), " minute delay.">>,
        <<>>)

BothFailedResultSent(in, w) ==
    WorkflowResult(TRUE, w.trafficData.estimatedDelayMinutes, TRUE, <<>>,
        <<"Failed to send notification: Email failed (">> \o w.notificationResponse.error
            \o <<"), SMS failed (">> \o w.smsResponse.error \o <<")">>)

BothFailedResultEmailOnly(in, w) ==
    WorkflowResult(TRUE, w.trafficData.estimatedDelayMinutes, FALSE, <<>>,
        <<"Failed to send notification: Email failed (">> \o w.notificationResponse.error
            \o <<")">>)

BothFailedResult(in, w) ==
    WorkflowResult(TRUE, w.trafficData.estimatedDelayMinutes, FALSE, <<>>,
        <<"Failed to send notification: Email failed (">> \o w.notificationResponse.error
            \o <<"), SMS failed (">> \o w.smsResponse.error \o <<")">>)

ErrorResult(in, w) == WorkflowResult(FALSE, 0, FALSE, <<>>, w.error)

AfterThresholdCheckSkipsCompose(shouldNotify) ==
    IF ~shouldNotify THEN "LogNoNotify" ELSE "LogStep4"

\* if (!shouldNotify)
AfterThresholdCheck(shouldNotify) ==
    IF ~shouldNotify THEN "LogNoNotify" ELSE "LogStep3"

\* if (!aiResponse.success)
AfterAIMessage(aiResponse) ==
    IF ~aiResponse.success THEN "LogAIWarning" ELSE "LogAIDone"

AfterEmailInverted(notificationResponse) ==
    IF ~notificationResponse.success THEN "LogEmailDone" ELSE "LogEmailWarning"

\* if (notificationResponse.success)
AfterEmail(notificationResponse) ==
    IF notificationResponse.success THEN "LogEmailDone" ELSE "LogEmailWarning"

AfterSMSBackToEmail(smsResponse) ==
    IF smsResponse.success THEN "LogSMSDone" ELSE "SendEmail"

\* if (smsResponse.success)
AfterSMS(smsResponse) ==
    IF smsResponse.success THEN "LogSMSDone" ELSE "LogBothFailed"

Goto(l, w) == [pc |-> l, v |-> w]

ReturnResult(w, r) == [pc |-> "Return", v |-> [w EXCEPT !.result = r]]

\* The code that runs when the awaited call at l resolves with value x.
OnResult(l, in, w, x) ==
    CASE l = "LogStarted" -> Goto("LogStep1", w)
      [] l = "LogStep1" -> Goto("Fetch", w)
      [] l = "Fetch" -> Goto("LogStep1Done", [w EXCEPT !.trafficData = x])
      [] l = "LogStep1Done" -> Goto("LogStep2", w)
      [] l = "LogStep2" -> Goto("ShouldNotify", w)
      [] l = "ShouldNotify" ->
            Goto(AfterThresholdCheck(x), [w EXCEPT !.shouldNotify = x])
      [] l = "LogNoNotify" -> ReturnResult(w, NoNotificationResult(in, w))
      [] l = "LogStep3" -> Goto("CreateAIRequest", w)
      [] l = "CreateAIRequest" -> Goto("GenerateAI", [w EXCEPT !.aiRequest = x])
      [] l = "GenerateAI" -> Goto(AfterAIMessage(x), [w EXCEPT !.aiResponse = x])
      [] l = "LogAIWarning" -> Goto("LogStep4", w)
      [] l = "LogAIDone" -> Goto("LogStep4", w)
      [] l = "LogStep4" -> Goto("CreateRequest", w)
      [] l = "CreateRequest" -> Goto("SendEmail", [w EXCEPT !.notificationRequest = x])
      [] l = "SendEmail" -> Goto(AfterEmail(x), [w EXCEPT !.notificationResponse = x])
      [] l = "LogEmailDone" -> ReturnResult(w, EmailSentResult(in, w))
      [] l = "LogEmailWarning" -> Goto("SendSMS", w)
      [] l = "SendSMS" -> Goto(AfterSMS(x), [w EXCEPT !.smsResponse = x])
      [] l = "LogSMSDone" -> ReturnResult(w, SMSSentResult(in, w))
      [] l = "LogBothFailed" -> ReturnResult(w, BothFailedResult(in, w))
      [] l = "LogError" -> ReturnResult(w, ErrorResult(in, w))

\* The awaits inside the try block.
TryLabels == CallLabels \ {"LogStarted", "LogError"}

OnFailureReturns(l, in, w, message) ==
    IF l \in TryLabels
    THEN ReturnResult([w EXCEPT !.error = message],
                      ErrorResult(in, [w EXCEPT !.error = message]))
    ELSE [pc |-> "Throw", v |-> [w EXCEPT !.error = message]]

\* The code that runs when the awaited call at l rejects with an error: inside
\* the try block the catch takes it, elsewhere it leaves the function.
OnFailure(l, in, w, message) ==
    IF l \in TryLabels
    THEN Goto("LogError", [w EXCEPT !.error = message])
    ELSE [pc |-> "Throw", v |-> [w EXCEPT !.error = message]]

-----------------------------------------------------------------------------
(* Durable execution of the workflow: proxyActivities, the retry policy and *)
(* the recorded history                                                    *)

\* Variants in which the workflow imports one activity function and calls it
\* directly instead of through the proxy.
ProxiedExceptGenerateAIMessage ==
    { "fetchTrafficData", "generateAIMessage", "sendDelayNotification",
      "sendSMSNotification", "shouldSendNotification", "createNotificationRequest",
      "logWorkflowStep", "createAIMessageRequest" } \ {"generateAIMessage"}

ProxiedExceptSendDelayNotification ==
    { "fetchTrafficData", "generateAIMessage", "sendDelayNotification",
      "sendSMSNotification", "shouldSendNotification", "createNotificationRequest",
      "logWorkflowStep", "createAIMessageRequest" } \ {"sendDelayNotification"}

ProxiedExceptFetchTrafficData ==
    { "fetchTrafficData", "generateAIMessage", "sendDelayNotification",
      "sendSMSNotification", "shouldSendNotification", "createNotificationRequest",
      "logWorkflowStep", "createAIMessageRequest" } \ {"fetchTrafficData"}

\* The activity functions the workflow obtains from proxyActivities.
Proxied ==
    { "fetchTrafficData", "generateAIMessage", "sendDelayNotification",
      "sendSMSNotification", "shouldSendNotification", "createNotificationRequest",
      "logWorkflowStep", "createAIMessageRequest" }

RetryPolicyFlat ==
    [ initialInterval |-> InitialInterval,
      maximumInterval |-> MaximumInterval,
      maximumAttempts |-> MaximumAttempts,
      backoffCoefficient |-> 1 ]

\* The retry option handed to proxyActivities.
RetryPolicy ==
    [ initialInterval |-> InitialInterval,
      maximumInterval |-> MaximumInterval,
      maximumAttempts |-> MaximumAttempts,
      backoffCoefficient |-> BackoffCoefficient ]

Min(a, b) == IF a <= b THEN a ELSE b

\* The wait policy p puts after failed attempt n: the first wait is the
\* initial interval, each later one the previous wait times the coefficient,
\* and none is longer than the maximum interval.
RECURSIVE RetryInterval(_, _)
RetryInterval(p, n) ==
    IF n = 1
    THEN Min(p.initialInterval, p.maximumInterval)
    ELSE Min(RetryInterval(p, n - 1) * p.backoffCoefficient, p.maximumInterval)

ShouldRetryThrough(n) == n <= retry.maximumAttempts

\* retry: { maximumAttempts: 3 }
ShouldRetry(n) == n < retry.maximumAttempts

Scheduled(c, l) == [type |-> "scheduled", name |-> c.name, args |-> c.args, at |-> l]

Completed(x) == [type |-> "completed", value |-> x]

Failed(message) == [type |-> "failed", error |-> message]

Closed(r) == [type |-> "closed", result |-> r]

Faulted(message) == [type |-> "faulted", error |-> message]

ActivityTaskFailed == <<"Activity task failed">>

ActivityTaskTimedOut == <<"Activity task timed out">>

Replaying == cursor < Len(history)

Channels == {"email", "sms"}

ChannelOf(name) == IF name = "sendDelayNotification" THEN "email" ELSE "sms"

\* Outcome o of the body of activity `name` has sent a notification out.
Delivers(name, o) ==
    /\ name \in {"sendDelayNotification", "sendSMSNotification"}
    /\ ~o.threw
    /\ o.value.success

Delivered1(name, o) ==
    IF Delivers(name, o)
    THEN [deliveries EXCEPT ![ChannelOf(name)] = @ + 1]
    ELSE deliveries

Last(h) == h[Len(h)]

appendFirst(h, record) == <<record>> \o h

\* The history store: a record is added at the end of the instance's records.
append(h, record) == Append(h, record)

\* Nothing but the one instance is looked at: one client, one worker, the
\* service reachable, no service call on its own, no cancellation.
EnvIdle ==
    /\ clock = 0
    /\ executions = <<>>
    /\ queue = {}
    /\ held = <<>>
    /\ up = TRUE
    /\ slots = <<>>
    /\ backlog = <<>>
    /\ call = NoData
    /\ reply = NoData
    /\ cancelRequested = FALSE

Init ==
    /\ EnvIdle
    /\ input \in [route : Routes, customerEmail : Emails, delayThresholdMinutes : Thresholds]
    /\ pc = "LogStarted"
    /\ awaiting = FALSE
    /\ v = InitialLocals
    /\ cursor = 0
    /\ history = <<>>
    /\ attempt = 0
    /\ restarts = 0
    /\ completions = [l \in CallLabels |-> 0]
    /\ deliveries = [ch \in Channels |-> 0]
    /\ retry = RetryPolicy
    /\ backoff = 0

\* The workflow code reaches the call at pc.  A proxied call is a command: when
\* the history already holds it the code moves on to its recorded outcome,
\* otherwise the activity is scheduled.  A call that is not proxied runs the
\* activity body in the workflow code.
Invoke ==
    /\ pc \in CallLabels
    /\ ~awaiting
    /\ LET c == CallAt(pc, input, v) IN
       IF c.name \notin Proxied
       THEN \E o \in activities(c.name, c.args) :
                LET n == IF o.threw THEN OnFailure(pc, input, v, o.error)
                                    ELSE OnResult(pc, input, v, o.value)
                IN /\ pc' = n.pc
                   /\ v' = n.v
                   /\ completions' = IF o.threw THEN completions
                                     ELSE [completions EXCEPT ![pc] = @ + 1]
                   /\ deliveries' = Delivered1(c.name, o)
                   /\ UNCHANGED <<awaiting, cursor, history, attempt>>
       ELSE IF Replaying
       THEN /\ IF history[cursor + 1].type = "scheduled"
                  /\ history[cursor + 1].name = c.name
               THEN awaiting' = TRUE /\ pc' = pc
               ELSE awaiting' = FALSE /\ pc' = "NonDeterminism"
            /\ cursor' = cursor + 1
            /\ UNCHANGED <<v, history, attempt, completions, deliveries>>
       ELSE /\ history' = append(history, Scheduled(c, pc))
            /\ cursor' = cursor + 1
            /\ attempt' = 1
            /\ awaiting' = TRUE
            /\ UNCHANGED <<pc, v, completions, deliveries>>
    /\ UNCHANGED envVars
    /\ UNCHANGED <<input, restarts, retry, backoff>>

\* The awaited call resolves from the next recorded event.
Await ==
    /\ awaiting
    /\ Replaying
    /\ LET e == history[cursor + 1] IN
       /\ e.type \in {"completed", "failed"}
       /\ LET n == IF e.type = "completed" THEN OnResult(pc, input, v, e.value)
                                           ELSE OnFailure(pc, input, v, e.error)
          IN pc' = n.pc /\ v' = n.v
    /\ cursor' = cursor + 1
    /\ awaiting' = FALSE
    /\ UNCHANGED envVars
    /\ UNCHANGED <<input, history, attempt, restarts, completions, deliveries,
                   retry, backoff>>

CloseStaysOpen ==
    /\ pc \in {"Return", "Throw"}
    /\ IF Replaying
       THEN /\ pc' = IF history[cursor + 1].type \in {"closed", "faulted"}
                     THEN "Closed" ELSE "NonDeterminism"
            /\ UNCHANGED history
       ELSE /\ pc' = pc
            /\ history' = append(history, IF pc = "Return" THEN Closed(v.result)
                                                           ELSE Faulted(v.error))
    /\ cursor' = cursor + 1
    /\ UNCHANGED envVars
    /\ UNCHANGED <<input, awaiting, v, attempt, restarts, completions, deliveries,
                   retry, backoff>>

\* The workflow function returns or throws: the execution is closed.
Close ==
    /\ pc \in {"Return", "Throw"}
    /\ IF Replaying
       THEN /\ pc' = IF history[cursor + 1].type \in {"closed", "faulted"}
                     THEN "Closed" ELSE "NonDeterminism"
            /\ UNCHANGED history
       ELSE /\ pc' = "Closed"
            /\ history' = append(history, IF pc = "Return" THEN Closed(v.result)
                                                           ELSE Faulted(v.error))
    /\ cursor' = cursor + 1
    /\ UNCHANGED envVars
    /\ UNCHANGED <<input, awaiting, v, attempt, restarts, completions, deliveries,
                   retry, backoff>>

\* An attempt of the activity in flight runs its body to the end and reports.
ActivityReturns ==
    /\ attempt > 0
    /\ \E o \in activities(Last(history).name, Last(history).args) :
          /\ ~o.threw
          /\ history' = append(history, Completed(o.value))
          /\ deliveries' = Delivered1(Last(history).name, o)
    /\ completions' = [completions EXCEPT ![Last(history).at] = @ + 1]
    /\ attempt' = 0
    /\ backoff' = 0
    /\ UNCHANGED envVars
    /\ UNCHANGED <<input, pc, awaiting, v, cursor, restarts, retry>>

AttemptFailedForever(message) ==
    /\ attempt' = attempt
    /\ backoff' = RetryInterval(retry, 1)
    /\ UNCHANGED history

AttemptFailedVisible(message) ==
    IF ShouldRetry(attempt)
    THEN /\ attempt' = attempt + 1
         /\ backoff' = RetryInterval(retry, attempt)
         /\ history' = append(history, Failed(message))
    ELSE /\ attempt' = 0
         /\ backoff' = 0
         /\ history' = append(history, Failed(message))

\* A failed attempt is retried until maximumAttempts, then the failure is recorded.
AttemptFailed(message) ==
    IF ShouldRetry(attempt)
    THEN /\ attempt' = attempt + 1
         /\ backoff' = RetryInterval(retry, attempt)
         /\ UNCHANGED history
    ELSE /\ attempt' = 0
         /\ backoff' = 0
         /\ history' = append(history, Failed(message))

\* An attempt of the activity in flight throws.
ActivityThrows ==
    /\ attempt > 0
    /\ \E o \in activities(Last(history).name, Last(history).args) : o.threw
    /\ AttemptFailed(ActivityTaskFailed)
    /\ UNCHANGED envVars
    /\ UNCHANGED <<input, pc, awaiting, v, cursor, restarts, completions, deliveries,
                   retry>>

\* An attempt of the activity in flight is lost (its worker stops, or it
\* exceeds startToCloseTimeout) before it reports: the body may not have run
\* at all, or may have got as far as any of its outcomes.
ActivityTimesOut ==
    /\ attempt > 0
    /\ \E ran \in BOOLEAN :
          \E o \in activities(Last(history).name, Last(history).args) :
              deliveries' = IF ran THEN Delivered1(Last(history).name, o) ELSE deliveries
    /\ AttemptFailed(ActivityTaskTimedOut)
    /\ UNCHANGED envVars
    /\ UNCHANGED <<input, pc, awaiting, v, cursor, restarts, completions, retry>>

\* The process running the workflow code stops; the code is started again and
\* runs against the recorded history.
Restart ==
    /\ restarts < MaxRestarts
    /\ restarts' = restarts + 1
    /\ pc' = "LogStarted"
    /\ awaiting' = FALSE
    /\ v' = InitialLocals
    /\ cursor' = 0
    /\ UNCHANGED envVars
    /\ UNCHANGED <<input, history, attempt, completions, deliveries, retry, backoff>>

Next ==
    \/ Invoke
    \/ Await
    \/ Close
    \/ ActivityReturns
    \/ ActivityThrows
    \/ ActivityTimesOut
    \/ Restart

Spec == Init /\ [][Next]_vars

-----------------------------------------------------------------------------
(* The retry policy on its own: one activity in flight whose attempts keep *)
(* timing out, under the configured policy and under other policies        *)

Policies ==
    [ initialInterval : {InitialInterval, 2, 3},
      maximumInterval : {2, MaximumInterval},
      maximumAttempts : {MaximumAttempts, MaxPolicyAttempts},
      backoffCoefficient : {1, BackoffCoefficient, 3} ]

\* The first activity of an instance has been scheduled under policy retry.
RetryInit ==
    /\ EnvIdle
    /\ input = [ route |-> [origin |-> NewYork, destination |-> Philadelphia],
                 customerEmail |-> <<"c", "@", "x">>,
                 delayThresholdMinutes |-> 30 ]
    /\ pc = "LogStarted"
    /\ awaiting = TRUE
    /\ v = InitialLocals
    /\ cursor = 1
    /\ history = <<Scheduled(CallAt("LogStarted", input, InitialLocals), "LogStarted")>>
    /\ attempt = 1
    /\ restarts = 0
    /\ completions = [l \in CallLabels |-> 0]
    /\ deliveries = [ch \in Channels |-> 0]
    /\ retry \in Policies
    /\ backoff = 0

\* The attempt in flight times out before its body has run.
RetryAttempt ==
    /\ attempt > 0
    /\ AttemptFailed(ActivityTaskTimedOut)
    /\ UNCHANGED envVars
    /\ UNCHANGED <<input, pc, awaiting, v, cursor, restarts, completions, deliveries,
                   retry>>

RetryNext == RetryAttempt

RetrySpec == RetryInit /\ [][RetryNext]_vars

-----------------------------------------------------------------------------
(* What the recorded history says about the instance *)

Invocations(name) ==
    { i \in 1..Len(history) : history[i].type = "scheduled" /\ history[i].name = name }

ScheduledAt(l) ==
    { i \in 1..Len(history) : history[i].type = "scheduled" /\ history[i].at = l }

\* The values the calls of an activity resolved with.
ResultsOf(name) ==
    { history[i + 1].value :
        i \in { j \in Invocations(name) :
                  j < Len(history) /\ history[j + 1].type = "completed" } }

\* Some activity failed for good: a failure that is not retried any more.
StepFailed == \E i \in 1..Len(history) : history[i].type = "failed"

Terminal == history # <<>> /\ Last(history).type \in {"closed", "faulted"}

Returned == history # <<>> /\ Last(history).type = "closed"

\* What handle.result() gives runScenario: the result, or the error it catches.
ClientReceives ==
    IF Returned THEN [kind |-> "result", result |-> Last(history).result, error |-> <<>>]
    ELSE IF Terminal THEN [kind |-> "fault", result |-> NoData, error |-> Last(history).error]
    ELSE [kind |-> "pending", result |-> NoData, error |-> <<>>]

\* The state the instance ended in, named after the return statement taken.
TerminalState ==
    IF ~Terminal THEN "Running"
    ELSE IF ~Returned THEN "Faulted"
    ELSE LET l == history[Len(history) - 2].at IN
         CASE l = "LogNoNotify" -> "NoActionNeeded"
           [] l \in {"LogEmailDone", "LogSMSDone"} -> "Completed"
           [] l = "LogBothFailed" -> "Failed"
           [] l = "LogError" -> "Errored"

NotificationCalls ==
    { "createAIMessageRequest", "generateAIMessage", "createNotificationRequest",
      "sendDelayNotification", "sendSMSNotification" }

-----------------------------------------------------------------------------
(* C1: once the fetch has succeeded with delay d, the threshold t decides the *)
(* branch.  With d > t the no-notification branch is never taken, the primary *)
(* send is only invoked after the compose step, and a run in which no step    *)
(* fails for good invokes both.  With d <= t (d = t included) no compose or   *)
(* send step is ever invoked, no result reports a notification, and a run in  *)
(* which no step fails for good ends in NoActionNeeded.                       *)
ThresholdDecidesBranch ==
    \A td \in ResultsOf("fetchTrafficData") :
        IF td.estimatedDelayMinutes > input.delayThresholdMinutes
        THEN /\ ScheduledAt("LogNoNotify") = {}
             /\ TerminalState # "NoActionNeeded"
             /\ \A j \in Invocations("sendDelayNotification") :
                    \E i \in Invocations("generateAIMessage") : i < j
             /\ (Terminal /\ ~StepFailed) =>
                    /\ Invocations("generateAIMessage") # {}
                    /\ Invocations("sendDelayNotification") # {}
        ELSE /\ \A n \in NotificationCalls : Invocations(n) = {}
             /\ Returned => ~Last(history).result.notificationSent
             /\ (Terminal /\ ~StepFailed) => TerminalState = "NoActionNeeded"

\* C1 witness: a delay equal to the threshold ended in NoActionNeeded.
ThresholdDecidesBranchWitness ==
    /\ TerminalState = "NoActionNeeded"
    /\ \E td \in ResultsOf("fetchTrafficData") :
          td.estimatedDelayMinutes = input.delayThresholdMinutes

Contains(text, part) ==
    \E i \in 1..(Len(text) - Len(part) + 1) : SubSeq(text, i, i + Len(part) - 1) = part

FetchedDelays == { td.estimatedDelayMinutes : td \in ResultsOf("fetchTrafficData") }

-----------------------------------------------------------------------------
(* C2: when the primary send has returned success:false, the fallback send is *)
(* invoked at most once, with the very request the primary was given, and     *)
(* exactly once in a run in which no step fails for good; when the fallback   *)
(* then returns success:true such a run ends Completed with delayDetected and *)
(* notificationSent true and a message saying the SMS fallback was used.      *)
FallbackAfterRejectedEmail ==
    (\E r \in ResultsOf("sendDelayNotification") : ~r.success) =>
        /\ Cardinality(Invocations("sendSMSNotification")) <= 1
        /\ \A j \in Invocations("sendSMSNotification") :
              \A i \in Invocations("sendDelayNotification") :
                  i < j /\ history[j].args = history[i].args
        /\ (Terminal /\ ~StepFailed) =>
              Cardinality(Invocations("sendSMSNotification")) = 1
        /\ (Terminal /\ ~StepFailed
              /\ \E r \in ResultsOf("sendSMSNotification") : r.success) =>
              /\ TerminalState = "Completed"
              /\ Last(history).result.delayDetected
              /\ Last(history).result.notificationSent
              /\ Head(Last(history).result.message) =
                    "Delay notification sent via SMS after email failed. Customer notified of "

\* C2 witness: the email was rejected, the SMS went out, the instance Completed.
FallbackAfterRejectedEmailWitness ==
    /\ TerminalState = "Completed"
    /\ \E r \in ResultsOf("sendDelayNotification") : ~r.success
    /\ \E r \in ResultsOf("sendSMSNotification") : r.success

-----------------------------------------------------------------------------
(* C3: when both send steps have returned success:false, no result reports a  *)
(* notification, and a run in which no step fails for good ends Failed with   *)
(* delayDetected true, notificationSent false and an error text that contains *)
(* the failure reason of the email and that of the SMS.                       *)
BothChannelsRejected ==
    \A r1 \in ResultsOf("sendDelayNotification") :
        \A r2 \in ResultsOf("sendSMSNotification") :
            (~r1.success /\ ~r2.success) =>
                /\ Returned => ~Last(history).result.notificationSent
                /\ (Terminal /\ ~StepFailed) =>
                      /\ TerminalState = "Failed"
                      /\ Last(history).result.delayDetected
                      /\ r1.error # <<>> /\ r2.error # <<>>
                      /\ Contains(Last(history).result.error, r1.error)
                      /\ Contains(Last(history).result.error, r2.error)

\* C3 witness: both channels rejected and the instance ended Failed.
BothChannelsRejectedWitness ==
    /\ TerminalState = "Failed"
    /\ \E r \in ResultsOf("sendDelayNotification") : ~r.success
    /\ \E r \in ResultsOf("sendSMSNotification") : ~r.success

-----------------------------------------------------------------------------
(* C4: when the primary send has returned success:true the fallback send is   *)
(* never invoked, and a run in which no step fails for good ends Completed    *)
(* with delayDetected true, notificationSent true, a message, and delayMinutes*)
(* equal to the fetched delay.                                                *)
PrimarySuccessCompletes ==
    (\E r \in ResultsOf("sendDelayNotification") : r.success) =>
        /\ Invocations("sendSMSNotification") = {}
        /\ (Terminal /\ ~StepFailed) =>
              /\ TerminalState = "Completed"
              /\ Last(history).result.delayDetected
              /\ Last(history).result.notificationSent
              /\ Last(history).result.message # <<>>
              /\ FetchedDelays = {Last(history).result.delayMinutes}

\* C4 witness: delay 45, threshold 30, the email went out, the instance Completed.
PrimarySuccessCompletesWitness ==
    /\ TerminalState = "Completed"
    /\ input.delayThresholdMinutes = 30
    /\ Last(history).result.delayMinutes = 45
    /\ Last(history).result.notificationSent
    /\ \E r \in ResultsOf("sendDelayNotification") : r.success

-----------------------------------------------------------------------------
(* C5: when the fetched delay does not exceed the threshold, every result     *)
(* has delayDetected false and notificationSent false, and a run in which no  *)
(* step fails for good returns delayMinutes equal to the fetched delay and no *)
(* error field.                                                               *)
BelowThresholdResult ==
    \A d \in FetchedDelays :
        d <= input.delayThresholdMinutes =>
            /\ Returned =>
                  /\ ~Last(history).result.delayDetected
                  /\ ~Last(history).result.notificationSent
            /\ (Terminal /\ ~StepFailed) =>
                  /\ Returned
                  /\ Last(history).result.delayMinutes = d
                  /\ Last(history).result.error = <<>>

\* C5 witness: delay 45 under threshold 50 returned without notification.
BelowThresholdResultWitness ==
    /\ Returned
    /\ ~StepFailed
    /\ input.delayThresholdMinutes = 50
    /\ FetchedDelays = {45}
    /\ ~Last(history).result.delayDetected
    /\ ~Last(history).result.notificationSent

-----------------------------------------------------------------------------
(* C6: whatever step failed for good, the instance ends Errored and its       *)
(* result is exactly delayDetected false, delayMinutes 0, notificationSent    *)
(* false, plus an error text.                                                 *)
StepFailureEndsErrored ==
    (Terminal /\ StepFailed) =>
        /\ TerminalState = "Errored"
        /\ ~Last(history).result.delayDetected
        /\ Last(history).result.delayMinutes = 0
        /\ ~Last(history).result.notificationSent
        /\ Last(history).result.error # <<>>

-----------------------------------------------------------------------------
(* C7: the caller awaiting a terminal instance receives a result with         *)
(* delayDetected, delayMinutes and notificationSent, never a bare fault.      *)
CallerReceivesResult ==
    Terminal =>
        /\ ClientReceives.kind = "result"
        /\ {"delayDetected", "delayMinutes", "notificationSent"}
              \subseteq DOMAIN ClientReceives.result

-----------------------------------------------------------------------------
(* The workflow code as a function of its input and of the step outcomes it *)
(* is fed                                                                   *)

\* The outcome records of a history, in order.
Outcomes(h) == SelectSeq(h, LAMBDA e : e.type \in {"completed", "failed"})

\* The calls a history records as scheduled, in order.
Commands(h) == SelectSeq(h, LAMBDA e : e.type = "scheduled")

\* The call sites whose call the history records as completed.
CompletedLabels ==
    { history[i].at :
        i \in { j \in 1..(Len(history) - 1) :
                  history[j].type = "scheduled" /\ history[j + 1].type = "completed" } }

\* The workflow function run from the call at l with locals w and fed the
\* outcomes rs one after the other: where it stands afterwards, and the calls
\* it has issued on the way (the one it stands at included).
RECURSIVE Decide(_, _, _, _)
Decide(in, l, w, rs) ==
    IF l \notin CallLabels
    THEN [pc |-> l, v |-> w, calls |-> <<>>]
    ELSE LET c == [call |-> CallAt(l, in, w), at |-> l] IN
         IF rs = <<>>
         THEN [pc |-> l, v |-> w, calls |-> <<c>>]
         ELSE LET n == IF Head(rs).type = "completed"
                       THEN OnResult(l, in, w, Head(rs).value)
                       ELSE OnFailure(l, in, w, Head(rs).error)
                  d == Decide(in, n.pc, n.v, Tail(rs))
              IN [pc |-> d.pc, v |-> d.v, calls |-> <<c>> \o d.calls]

Workflow(in, rs) == Decide(in, "LogStarted", InitialLocals, rs)

-----------------------------------------------------------------------------
(* C8: replaying the full recorded history of a terminal instance through   *)
(* the workflow code ends with the same terminal result (or the same fault) *)
(* as the original run: the replay appends nothing to the history, starts   *)
(* no activity attempt, executes no activity body (no completion and no     *)
(* delivery is added) and never diverges from the records.                  *)
ReplayReproducesResult ==
    [][ Terminal =>
          /\ history' = history
          /\ attempt' = 0
          /\ completions' = completions
          /\ deliveries' = deliveries
          /\ pc' # "NonDeterminism"
          /\ pc' = "Return" => Returned /\ v'.result = Last(history).result
          /\ pc' = "Throw" => ~Returned /\ v'.error = Last(history).error
      ]_vars

\* C8 witness: a replay of a terminal history that notified the customer has
\* walked every step record and stands at its return with the recorded result.
ReplayReproducesResultWitness ==
    /\ Terminal
    /\ restarts >= 1
    /\ pc = "Return"
    /\ cursor = Len(history) - 1
    /\ v.result = Last(history).result
    /\ v.result.notificationSent
    /\ \A l \in CompletedLabels : completions[l] = 1

-----------------------------------------------------------------------------
-----------------------------------------------------------------------------
(* C10: the workflow code is a function of the input and of the recorded    *)
(* step outcomes.  Recomputed from those alone, it stands where the running *)
(* code stands, with the same locals; the calls the history records are the *)
(* recomputed ones, with the same arguments and in the same order; and the  *)
(* recorded terminal result is the recomputed one.                          *)
DecisionsFollowRecordedResults ==
    /\ pc # "NonDeterminism"
    /\ LET d == Workflow(input, Outcomes(SubSeq(history, 1, cursor))) IN
          /\ v = d.v
          /\ pc \in {d.pc, "Closed"}
          /\ pc = "Closed" => d.pc \in {"Return", "Throw"}
    /\ LET d == Workflow(input, Outcomes(history))
           cs == Commands(history)
       IN /\ Len(cs) \in {Len(d.calls) - 1, Len(d.calls)}
          /\ \A i \in 1..Len(cs) :
                /\ cs[i].at = d.calls[i].at
                /\ cs[i].name = d.calls[i].call.name
                /\ cs[i].args = d.calls[i].call.args
          /\ Returned => d.pc = "Return" /\ Last(history).result = d.v.result
          /\ (Terminal /\ ~Returned) => d.pc = "Throw" /\ Last(history).error = d.v.error

\* C10 witness: a second run of the code over the same records has reached
\* the SMS call again, with the locals the records determine, while the
\* records go on to a result sent by SMS.
DecisionsFollowRecordedResultsWitness ==
    /\ restarts >= 1
    /\ Replaying
    /\ pc = "SendSMS"
    /\ ~awaiting
    /\ v = Workflow(input, Outcomes(SubSeq(history, 1, cursor))).v
    /\ TerminalState = "Completed"

-----------------------------------------------------------------------------
(* C11: the activity in flight is on attempt 1, 2 or 3 and never on a       *)
(* fourth.  Attempts are numbered one after the other from the attempt that *)
(* scheduling starts; whatever attempt 3 ends with closes the step with a   *)
(* record; a failure is recorded only when attempt 3 fails; and the code    *)
(* awaiting the step receives that failure instead of a result.             *)
AttemptsBounded ==
    [][ /\ attempt \in 0..MaximumAttempts
        /\ attempt' \in 0..MaximumAttempts
        /\ attempt' \in {0, attempt, attempt + 1}
        /\ (attempt = 0 /\ attempt' = 1) =>
              Len(history') = Len(history) + 1 /\ Last(history').type = "scheduled"
        /\ (attempt = MaximumAttempts /\ attempt' # attempt) =>
              /\ attempt' = 0
              /\ Len(history') = Len(history) + 1
              /\ Last(history').type \in {"completed", "failed"}
        /\ (Len(history') > Len(history) /\ Last(history').type = "failed") =>
              attempt = MaximumAttempts /\ attempt' = 0
        /\ (awaiting /\ Replaying /\ cursor' = cursor + 1
              /\ history[cursor + 1].type = "failed") =>
              /\ pc' \in {"LogError", "Throw"}
              /\ v'.error = history[cursor + 1].error
      ]_vars

\* C11 witness: the email send timed out on all three attempts; its failure
\* is recorded and the workflow code has received it in its catch block.
AttemptsBoundedWitness ==
    /\ Len(history) >= 2
    /\ attempt = 0
    /\ Last(history).type = "failed"
    /\ Last(history).error = ActivityTaskTimedOut
    /\ history[Len(history) - 1].at = "SendEmail"
    /\ pc = "LogError"
    /\ v.error = ActivityTaskTimedOut

-----------------------------------------------------------------------------
(* C12: the wait before attempt n + 1 is                                    *)
(* min(initialInterval * backoffCoefficient^(n-1), maximumInterval); no     *)
(* wait exceeds the maximum interval; and under the configured policy the   *)
(* waits before attempts 2 and 3 are 1 s and 2 s.                           *)
BackoffSchedule ==
    /\ backoff <= retry.maximumInterval
    /\ attempt <= 1 => backoff = 0
    /\ attempt >= 2 =>
          backoff = IF retry.initialInterval * retry.backoffCoefficient ^ (attempt - 2)
                          <= retry.maximumInterval
                    THEN retry.initialInterval * retry.backoffCoefficient ^ (attempt - 2)
                    ELSE retry.maximumInterval
    /\ retry = RetryPolicy =>
          /\ attempt = 2 => backoff = 1
          /\ attempt = 3 => backoff = 2
          /\ backoff <= 10

\* C12 witness: under the configured policy the third attempt is in flight
\* after a wait of 2 s.
BackoffScheduleWitness ==
    /\ retry = RetryPolicy
    /\ retry.initialInterval = 1
    /\ retry.backoffCoefficient = 2
    /\ attempt = 3
    /\ backoff = 2

-----------------------------------------------------------------------------
(* C13: a step that rejects its input (an invalid route, a malformed        *)
(* contact) is attempted once: an activity whose body can only throw on the *)
(* arguments it was scheduled with is never on a second or third attempt.   *)
InputErrorNotRetried ==
    attempt > 1 =>
        \E o \in activities(Last(history).name, Last(history).args) : ~o.threw

-----------------------------------------------------------------------------
(* C14: a failed attempt that is retried changes nothing the workflow code  *)
(* can see: its position, its locals and the history stay as they are.  A   *)
(* step that succeeds on a later attempt leaves the record a first-attempt  *)
(* success leaves, a completed record holding one of the results its body   *)
(* can return, with no trace of the attempts; and the returned result is    *)
(* the one determined by the input and the recorded outcomes.               *)
TransientFailuresInvisible ==
    [][ /\ (attempt > 0 /\ attempt' = attempt + 1) =>
              UNCHANGED <<pc, awaiting, v, cursor, history>>
        /\ (Len(history') > Len(history) /\ Last(history').type = "completed") =>
              /\ DOMAIN Last(history') = {"type", "value"}
              /\ \E o \in activities(Last(history).name, Last(history).args) :
                    ~o.threw /\ Last(history') = Completed(o.value)
        /\ \A i \in 1..(Len(history) - 1) :
              history[i].type = "scheduled" =>
                  /\ history[i + 1].type \in {"completed", "failed"}
                  /\ i + 2 <= Len(history) => history[i + 2].type \notin {"completed", "failed"}
        /\ Returned => Last(history).result = Workflow(input, Outcomes(history)).v.result
      ]_vars

\* C14 witness: an attempt of the email send was lost after the provider had
\* sent the mail, a later attempt succeeded, and the instance Completed with
\* the result of a first-attempt success.
TransientFailuresInvisibleWitness ==
    /\ TerminalState = "Completed"
    /\ ~StepFailed
    /\ deliveries["email"] = 2
    /\ ScheduledAt("SendSMS") = {}
    /\ Last(history).result =
          EmailSentResult(input, Workflow(input, Outcomes(history)).v)

-----------------------------------------------------------------------------
(* C15: a send that the channel rejects resolves with success false as a    *)
(* completed step.  It is not attempted again (the attempt in flight always *)
(* belongs to the last scheduled call, which has no record yet, and each    *)
(* send is scheduled at most once); a send step fails by throwing only on   *)
(* an invalid request, never on a rejection.  After a rejected email the    *)
(* instance goes on to the SMS and, unless a step fails for good, ends      *)
(* Completed or Failed; after a rejected SMS it ends Failed; it ends        *)
(* Errored only when some step failed for good.                             *)
RejectionIsData ==
    /\ attempt > 0 => history # <<>> /\ Last(history).type = "scheduled"
    /\ \A l \in {"SendEmail", "SendSMS"} : Cardinality(ScheduledAt(l)) <= 1
    /\ \A i \in ScheduledAt("SendEmail") \cup ScheduledAt("SendSMS") :
          (i < Len(history) /\ history[i + 1].type = "failed"
             /\ history[i + 1].error = ActivityTaskFailed) =>
              history[i].at = "SendEmail" /\ ~validateRequest(history[i].args.request)
    /\ TerminalState = "Errored" => StepFailed
    /\ \A r \in ResultsOf("sendDelayNotification") :
          ~r.success =>
              /\ TerminalState \notin {"NoActionNeeded"}
              /\ ScheduledAt("LogEmailDone") = {}
              /\ (Terminal /\ ~StepFailed) =>
                    /\ ScheduledAt("SendSMS") # {}
                    /\ TerminalState \in {"Completed", "Failed"}
    /\ \A r \in ResultsOf("sendSMSNotification") :
          ~r.success =>
              /\ ScheduledAt("LogSMSDone") = {}
              /\ (Terminal /\ ~StepFailed) => TerminalState = "Failed"

\* C15 witness: the email was rejected on its only attempt, the SMS was
\* scheduled after it and rejected too, and the instance ended Failed.
RejectionIsDataWitness ==
    /\ TerminalState = "Failed"
    /\ ~StepFailed
    /\ \E r \in ResultsOf("sendDelayNotification") : ~r.success /\ r.error = EmailFailure
    /\ \E r \in ResultsOf("sendSMSNotification") : ~r.success
    /\ \A i \in ScheduledAt("SendEmail") : \A j \in ScheduledAt("SendSMS") : i < j
    /\ deliveries = [ch \in Channels |-> 0]

-----------------------------------------------------------------------------
-----------------------------------------------------------------------------
(* The states of an instance, read off the calls its history records *)

\* The state the workflow code is in when it issues the call at l.  The log
\* calls that precede a return statement still belong to the state left by
\* that return; the catch block is Errored.
StateOf(l) ==
    CASE l = "LogStarted" -> "Started"
      [] l \in {"LogStep1", "Fetch"} -> "FetchingTraffic"
      [] l \in {"LogStep1Done", "LogStep2", "ShouldNotify", "LogNoNotify"} ->
            "EvaluatingThreshold"
      [] l \in {"LogStep3", "CreateAIRequest", "GenerateAI", "LogAIWarning",
                "LogAIDone"} -> "ComposingMessage"
      [] l \in {"LogStep4", "CreateRequest", "SendEmail", "LogEmailDone"} ->
            "SendingPrimary"
      [] l \in {"LogEmailWarning", "SendSMS", "LogSMSDone", "LogBothFailed"} ->
            "SendingFallback"
      [] l = "LogError" -> "Errored"

NonTerminalStates ==
    { "Started", "FetchingTraffic", "EvaluatingThreshold", "ComposingMessage",
      "SendingPrimary", "SendingFallback" }

\* The transitions between non-terminal states, and into Errored.
Transitions ==
    { <<"Started", "FetchingTraffic">>,
      <<"FetchingTraffic", "EvaluatingThreshold">>,
      <<"EvaluatingThreshold", "ComposingMessage">>,
      <<"ComposingMessage", "SendingPrimary">>,
      <<"SendingPrimary", "SendingFallback">> }
        \cup { <<q, "Errored">> : q \in NonTerminalStates }

\* The transitions a return statement takes into a terminal state.
TerminalTransitions ==
    { <<"EvaluatingThreshold", "NoActionNeeded">>,
      <<"SendingPrimary", "Completed">>,
      <<"SendingFallback", "Completed">>,
      <<"SendingFallback", "Failed">>,
      <<"Errored", "Errored">> }

\* A sequence without its immediate repetitions.
RECURSIVE Collapse(_)
Collapse(q) ==
    IF Len(q) <= 1 THEN q
    ELSE IF q[1] = q[2] THEN Collapse(Tail(q))
    ELSE <<q[1]>> \o Collapse(Tail(q))

\* The states the instance has gone through, in order.
StatePath ==
    LET cs == Commands(history)
    IN Collapse([i \in 1..Len(cs) |-> StateOf(cs[i].at)])

-----------------------------------------------------------------------------
(* C17: the states an instance goes through start with Started, each next   *)
(* state is reached over a transition of the graph (Errored from any        *)
(* non-terminal state), no state occurs twice, and a returned result is the *)
(* terminal state the last state leads to.  Compose is only called after a  *)
(* fetch that completed, the SMS only after an email send that completed    *)
(* with success false.                                                      *)
StatesFollowGraph ==
    /\ LET path == StatePath IN
          /\ path # <<>> => path[1] = "Started"
          /\ \A i \in 1..(Len(path) - 1) : <<path[i], path[i + 1]>> \in Transitions
          /\ \A i, j \in 1..Len(path) : path[i] = path[j] => i = j
          /\ Returned => <<path[Len(path)], TerminalState>> \in TerminalTransitions
    /\ \A j \in Invocations("createAIMessageRequest") \cup Invocations("generateAIMessage") :
          \E i \in Invocations("fetchTrafficData") :
              i < j /\ history[i + 1].type = "completed"
    /\ \A j \in Invocations("sendSMSNotification") :
          \E i \in Invocations("sendDelayNotification") :
              /\ i < j
              /\ history[i + 1].type = "completed"
              /\ ~history[i + 1].value.success

\* C17 witness: an instance that went through every state of the longest
\* path and Completed over the fallback channel.
StatesFollowGraphWitness ==
    /\ StatePath = <<"Started", "FetchingTraffic", "EvaluatingThreshold",
                     "ComposingMessage", "SendingPrimary", "SendingFallback">>
    /\ TerminalState = "Completed"
    /\ restarts >= 1

-----------------------------------------------------------------------------
(* C18: the history of an instance holds at most one closing record.  Once  *)
(* it is there, nothing changes any more: the history, the terminal state   *)
(* and the result the caller receives stay as they are, no activity attempt *)
(* is in flight or started, and no activity body runs.                      *)
TerminalIsFinal ==
    [][ /\ Cardinality({ i \in 1..Len(history') :
                           history'[i].type \in {"closed", "faulted"} }) <= 1
        /\ Terminal =>
              /\ Terminal'
              /\ history' = history
              /\ TerminalState' = TerminalState
              /\ ClientReceives' = ClientReceives
              /\ attempt = 0
              /\ attempt' = 0
              /\ completions' = completions
              /\ deliveries' = deliveries
      ]_vars

\* C18 witness: the workflow code is run again over the history of an
\* instance that already ended Failed.
TerminalIsFinalWitness ==
    /\ Terminal
    /\ TerminalState = "Failed"
    /\ restarts >= 1
    /\ pc = "SendSMS"
    /\ Replaying

-----------------------------------------------------------------------------
(* C19: the send steps of an instance resolve with at most two notification *)
(* responses, at most one from sendDelayNotification and at most one from   *)
(* sendSMSNotification, however many attempts the steps took: each send is  *)
(* scheduled at most once, has at most one completed record, and its body   *)
(* reports a response at most once.                                         *)
AtMostOneOutcomePerChannel ==
    LET outcomes(name) ==
            { i \in Invocations(name) :
                i < Len(history) /\ history[i + 1].type = "completed" }
    IN /\ Cardinality(Invocations("sendDelayNotification")) <= 1
       /\ Cardinality(Invocations("sendSMSNotification")) <= 1
       /\ Cardinality(outcomes("sendDelayNotification")) <= 1
       /\ Cardinality(outcomes("sendSMSNotification")) <= 1
       /\ Cardinality(outcomes("sendDelayNotification")
                        \cup outcomes("sendSMSNotification")) <= 2
       /\ completions["SendEmail"] = Cardinality(outcomes("sendDelayNotification"))
       /\ completions["SendSMS"] = Cardinality(outcomes("sendSMSNotification"))

\* C19 witness: a run with retries and a restart in which both channels
\* produced their one response: the email was rejected, the SMS step lost an
\* attempt and succeeded on a later one.
AtMostOneOutcomePerChannelWitness ==
    /\ Terminal
    /\ restarts >= 1
    /\ \E r \in ResultsOf("sendDelayNotification") : ~r.success
    /\ \E r \in ResultsOf("sendSMSNotification") : r.success
    /\ deliveries["sms"] >= 2

-----------------------------------------------------------------------------
(* C20: every step leaves the history as it is or adds one record at its    *)
(* end; the records already there keep their content and their order.  The  *)
(* running code consumes the records one at a time in that order, a         *)
(* restarted run starting again from the first, and never reads past the    *)
(* last record.                                                             *)
HistoryAppendOnly ==
    [][ /\ Len(history') \in {Len(history), Len(history) + 1}
        /\ SubSeq(history', 1, Len(history)) = history
        /\ cursor <= Len(history)
        /\ cursor' <= Len(history')
        /\ cursor' \in {0, cursor, cursor + 1}
        /\ (cursor' = cursor + 1 /\ awaiting) =>
              LET e == history[cursor + 1] IN
                  /\ e.type \in {"completed", "failed"}
                  /\ pc' = IF e.type = "completed"
                           THEN OnResult(pc, input, v, e.value).pc
                           ELSE OnFailure(pc, input, v, e.error).pc
        /\ (cursor' = cursor + 1 /\ ~awaiting /\ pc \in CallLabels) =>
              history'[cursor'].type = "scheduled" /\ history'[cursor'].at = pc
      ]_vars

\* C20 witness: a restarted run has consumed the first records of a longer
\* history and stands before the next one.
HistoryAppendOnlyWitness ==
    /\ restarts >= 1
    /\ Len(history) >= 8
    /\ cursor = 4
    /\ history[cursor].type = "completed"
    /\ history[cursor + 1].type = "scheduled"
    /\ history[cursor + 1].at = pc

-----------------------------------------------------------------------------
(* client.ts and worker.ts, with the Temporal service between them: several *)
(* instances, one task queue, several worker processes                      *)

MaxExecutions == 2

MaxClock == 1

MaxTaskAttempts == 2

StepsPerInstance == 1

MaxScenarios == 1

MaxHeld == 1

Workers == {"worker-1", "worker-2"}

\* No instance is being run by the single-instance machinery above.
WorkflowIdle ==
    /\ input = [ route |-> [origin |-> NewYork, destination |-> Philadelphia],
                 customerEmail |-> <<"c", "@", "x">>,
                 delayThresholdMinutes |-> 30 ]
    /\ pc = "LogStarted"
    /\ awaiting = FALSE
    /\ v = InitialLocals
    /\ cursor = 0
    /\ history = <<>>
    /\ attempt = 0
    /\ restarts = 0
    /\ completions = [l \in CallLabels |-> 0]
    /\ deliveries = [ch \in Channels |-> 0]
    /\ retry = RetryPolicy
    /\ backoff = 0

\* worker.ts: const TASK_QUEUE
TASK_QUEUE == <<"freight-delay-notifications">>

\* client.ts: the taskQueue option of client.workflow.start
ClientTaskQueue == <<"freight-delay-notifications">>

\* client.ts: for (let i = 0; i < scenarios.length; i++) runScenario(.., i + 1)
ScenarioNumbers == 1..MaxScenarios

\* What Date.now() can read on the host of a client.
Clocks == 0..MaxClock

\* client.ts: `freight-delay-${scenarioNumber}-${Date.now()}`
WorkflowId(scenarioNumber, now) ==
    <<"freight-delay-", ToString(scenarioNumber), "-", ToString(now)>>

\* A record of the log of execution r.
Record(r, type, step) == [run |-> r, type |-> type, step |-> step]

\* A task of execution r: a workflow task asks for the next decision, an
\* activity task for one attempt of a step.  `at` is the length of the log it
\* was created at.
Task(r, kind, at, n) ==
    [run |-> r, kind |-> kind, at |-> at, attempt |-> n, taskQueue |-> ClientTaskQueue]

\* The number of steps the log records as completed.
StepsDone(log) == Cardinality({ i \in 1..Len(log) : log[i].type = "completed" })

\* The task execution e of index r is waiting for.
CurrentTask(r, e) ==
    Task(r, IF Last(e.log).type = "scheduled" THEN "activity" ELSE "workflow",
         Len(e.log), e.attempt)

appendToFirst(xs, r, record) == [xs EXCEPT ![1].log = append(@, record)]

\* The history store: the record is added to the log of execution r.
appendTo(xs, r, record) == [xs EXCEPT ![r].log = append(@, record)]

AcceptsAny(e, t) == e.open

\* The service takes the completion of a task only when it is the task the
\* execution is waiting for.
Accepts(e, t) == e.open /\ t = CurrentTask(t.run, e)

\* One decision of the workflow code: the next await schedules its activity,
\* or the function returns.
Decision(r, log) ==
    IF StepsDone(log) < StepsPerInstance
    THEN Record(r, "scheduled", StepsDone(log) + 1)
    ELSE Record(r, "closed", StepsDone(log))

DispatchInit ==
    /\ WorkflowIdle
    /\ clock \in Clocks
    /\ executions = <<>>
    /\ queue = {}
    /\ held = [w \in Workers |-> {}]
    /\ up = TRUE
    /\ slots = <<>>
    /\ backlog = <<>>
    /\ call = NoData
    /\ reply = NoData
    /\ cancelRequested = FALSE

DispatchIdle == UNCHANGED <<workflowVars, workerVars, serviceVars, cancelRequested>>

\* The clock of the client host moves (it is wall-clock time: it can be set
\* back, and two hosts need not agree on it).
Tick ==
    /\ \E now \in Clocks \ {clock} : clock' = now
    /\ UNCHANGED <<executions, queue, held, up>>
    /\ DispatchIdle

\* runScenario: client.workflow.start under a fresh workflowId.  The service
\* refuses the start while an execution with this id is open (the client
\* logs the error and goes on); otherwise it creates the execution and its
\* first workflow task.
StartWorkflow(scenarioNumber) ==
    /\ up
    /\ Len(executions) < MaxExecutions
    /\ LET id == WorkflowId(scenarioNumber, clock)
           r == Len(executions) + 1
       IN /\ \A q \in DOMAIN executions :
                executions[q].workflowId = id => ~executions[q].open
          /\ executions' = Append(executions,
                [ workflowId |-> id, open |-> TRUE,
                  log |-> <<Record(r, "started", 0)>>, attempt |-> 1 ])
          /\ queue' = queue \cup {Task(r, "workflow", 1, 1)}
    /\ UNCHANGED <<clock, held, up>>
    /\ DispatchIdle

PollKeeps(w) ==
    /\ up
    /\ Cardinality(held[w]) < MaxHeld
    /\ \E t \in queue :
          /\ t.taskQueue = TASK_QUEUE
          /\ held' = [held EXCEPT ![w] = @ \cup {t}]
    /\ UNCHANGED <<clock, executions, queue, up>>
    /\ DispatchIdle

\* worker.run(): the worker polls its task queue; the service hands it a
\* task and takes the task off the queue.
Poll(w) ==
    /\ up
    /\ Cardinality(held[w]) < MaxHeld
    /\ \E t \in queue :
          /\ t.taskQueue = TASK_QUEUE
          /\ queue' = queue \ {t}
          /\ held' = [held EXCEPT ![w] = @ \cup {t}]
    /\ UNCHANGED <<clock, executions, up>>
    /\ DispatchIdle

\* The log and the task that follow when the service takes record as the
\* completion of the current task of execution r.
Commit(r, record) ==
    LET xs == appendTo(executions, r, record) IN
    /\ executions' = [xs EXCEPT ![r].open = record.type # "closed", ![r].attempt = 1]
    /\ queue' = IF record.type = "closed"
                THEN queue
                ELSE queue \cup
                     { Task(r, IF record.type = "scheduled" THEN "activity" ELSE "workflow",
                            Len(xs[r].log), 1) }

\* The worker finishes a task it holds and reports to the service: a
\* decision for a workflow task, the outcome of the step for an activity
\* task.  A completion the service does not accept changes nothing.
Complete(w) ==
    /\ up
    /\ \E t \in held[w] :
          /\ held' = [held EXCEPT ![w] = @ \ {t}]
          /\ IF Accepts(executions[t.run], t)
             THEN Commit(t.run, IF t.kind = "workflow"
                                THEN Decision(t.run, executions[t.run].log)
                                ELSE Record(t.run, "completed",
                                            StepsDone(executions[t.run].log) + 1))
             ELSE UNCHANGED <<executions, queue>>
    /\ UNCHANGED <<clock, up>>
    /\ DispatchIdle

\* The service has heard nothing of a task it handed out within the task's
\* timeout: it queues the next attempt.  The worker that took the earlier
\* attempt may still be working on it.
TaskTimesOut(r) ==
    /\ up
    /\ r \in DOMAIN executions
    /\ executions[r].open
    /\ executions[r].attempt < MaxTaskAttempts
    /\ CurrentTask(r, executions[r]) \notin queue
    /\ executions' = [executions EXCEPT ![r].attempt = @ + 1]
    /\ queue' = queue \cup {CurrentTask(r, executions'[r])}
    /\ UNCHANGED <<clock, held, up>>
    /\ DispatchIdle

\* worker.ts: process.on('SIGINT' / 'SIGTERM') exits the process at once; the
\* tasks it holds are not reported.
Shutdown(w) ==
    /\ held[w] # {}
    /\ \A t \in held[w] : executions[t.run].attempt < MaxTaskAttempts
    /\ held' = [held EXCEPT ![w] = {}]
    /\ UNCHANGED <<clock, executions, queue, up>>
    /\ DispatchIdle

OutageDrops ==
    /\ up
    /\ up' = FALSE
    /\ queue' = {}
    /\ UNCHANGED <<clock, executions, held>>
    /\ DispatchIdle

\* The service (history and task queues) becomes unreachable.
Outage ==
    /\ up
    /\ up' = FALSE
    /\ UNCHANGED <<clock, executions, queue, held>>
    /\ DispatchIdle

\* The service is reachable again.
Recover ==
    /\ ~up
    /\ up' = TRUE
    /\ UNCHANGED <<clock, executions, queue, held>>
    /\ DispatchIdle

DispatchNext ==
    \/ Tick
    \/ \E n \in ScenarioNumbers : StartWorkflow(n)
    \/ \E w \in Workers : Poll(w)
    \/ \E w \in Workers : Complete(w)
    \/ \E r \in 1..MaxExecutions : TaskTimesOut(r)
    \/ \E w \in Workers : Shutdown(w)
    \/ Outage
    \/ Recover

DispatchSpec == DispatchInit /\ [][DispatchNext]_vars

-----------------------------------------------------------------------------
\* The i-th record an instance appends over its life: started, then for each
\* step scheduled and completed, then closed.
ExpectedRecord(r, i) ==
    IF i = 1 THEN Record(r, "started", 0)
    ELSE IF i = 2 * StepsPerInstance + 2 THEN Record(r, "closed", StepsPerInstance)
    ELSE IF i % 2 = 0 THEN Record(r, "scheduled", i \div 2)
    ELSE Record(r, "completed", (i - 1) \div 2)

\* The tasks some worker holds.
Held == UNION { held[w] : w \in Workers }

(* C21: whatever the interleaving of the appends of instances that run at   *)
(* the same time, the log of every instance holds the records appended for  *)
(* this instance and no other: its records, in the order appended, with     *)
(* none missing up to the record its last task was created at, and none of  *)
(* another instance.                                                        *)
AppendsKeptApart ==
    \A r \in DOMAIN executions :
        LET e == executions[r] IN
        /\ Len(e.log) \in 1..(2 * StepsPerInstance + 2)
        /\ \A i \in 1..Len(e.log) : e.log[i] = ExpectedRecord(r, i)
        /\ e.open <=> Last(e.log).type # "closed"
        /\ \A t \in queue \cup Held : t.run = r => t.at <= Len(e.log)

\* C21 witness: two instances are open at once, each has had records
\* appended after its start while the other was running, and the two workers
\* hold a task of one instance each.
AppendsKeptApartWitness ==
    /\ Len(executions) = 2
    /\ \A r \in DOMAIN executions : executions[r].open /\ Len(executions[r].log) >= 3
    /\ \E t \in held["worker-1"] : t.run = 1 /\ t = CurrentTask(1, executions[1])
    /\ \E t \in held["worker-2"] : t.run = 2 /\ t = CurrentTask(2, executions[2])

-----------------------------------------------------------------------------
(* C22: with two workers polling the one task queue, a task attempt is in   *)
(* the hands of at most one worker: no attempt is held by two workers, an   *)
(* attempt handed out is no longer on the queue, and no step of an instance *)
(* has two outcome records.                                                 *)
AttemptHandedToOneWorker ==
    /\ \A w1, w2 \in Workers : w1 # w2 => held[w1] \cap held[w2] = {}
    /\ Held \cap queue = {}
    /\ \A r \in DOMAIN executions :
          \A i, j \in 1..Len(executions[r].log) :
              (executions[r].log[i] = executions[r].log[j]) => i = j

\* C22 witness: the first attempt of an activity task is still with one
\* worker when the service, having timed it out, has handed the second
\* attempt to the other worker.
AttemptHandedToOneWorkerWitness ==
    \E t1 \in held["worker-1"] : \E t2 \in held["worker-2"] :
        /\ t1.kind = "activity"
        /\ t1.run = t2.run /\ t1.kind = t2.kind /\ t1.at = t2.at
        /\ t1.attempt = 1 /\ t2.attempt = 2

-----------------------------------------------------------------------------
(* C23: the decisions of one instance take effect one at a time, through    *)
(* its log.  The log of an instance changes only by one record added at its *)
(* end, by the worker that holds the task the instance is waiting for       *)
(* giving that task up; a decision is the one the workflow code computes    *)
(* from the log as it then stands; and the step changes the log of no other *)
(* instance.  So the work of other instances falls between the decisions of *)
(* an instance, never inside one.                                           *)
DecisionsSerialized ==
    [][ \A r \in DOMAIN executions :
          LET e == executions[r]
              f == executions'[r]
          IN f.log # e.log =>
                /\ Len(f.log) = Len(e.log) + 1
                /\ SubSeq(f.log, 1, Len(e.log)) = e.log
                /\ CurrentTask(r, e) \in Held
                /\ CurrentTask(r, e) \notin Held'
                /\ Last(e.log).type # "scheduled" =>
                      Last(f.log) = Decision(r, e.log)
                /\ \A q \in DOMAIN executions \ {r} : executions'[q].log = executions[q].log
      ]_vars

\* C23 witness: a worker is evaluating the second decision of one instance
\* while the other worker holds a task of another instance, and an earlier
\* attempt of some task has been superseded.
DecisionsSerializedWitness ==
    /\ Len(executions) = 2
    /\ \E t \in held["worker-1"] :
          /\ t.kind = "workflow"
          /\ t.at >= 3
          /\ t = CurrentTask(t.run, executions[t.run])
          /\ \E u \in held["worker-2"] : u.run # t.run /\ u = CurrentTask(u.run, executions[u.run])
    /\ \E r \in DOMAIN executions : executions[r].attempt = 2

-----------------------------------------------------------------------------
(* The same, with the scheduling the processes have: a running worker keeps *)
(* polling and finishes the tasks it holds, the timers of the service fire, *)
(* and an outage ends.                                                      *)
FairDispatchSpec ==
    /\ DispatchSpec
    /\ \A w \in Workers : WF_vars(Poll(w)) /\ WF_vars(Complete(w))
    /\ \A r \in 1..MaxExecutions : WF_vars(TaskTimesOut(r))
    /\ WF_vars(Recover)

-----------------------------------------------------------------------------
(* C26: there is one instance per instance id: no two executions carry the  *)
(* same workflowId, whatever the starts and whenever they were made.        *)
OneInstancePerId ==
    \A q, r \in DOMAIN executions :
        executions[q].workflowId = executions[r].workflowId => q = r

-----------------------------------------------------------------------------
(* Cancellation of the one instance.  The workflow function runs in the     *)
(* root cancellation scope: when the instance is cancelled the call it is   *)
(* awaiting rejects, and every call made afterwards rejects without being   *)
(* scheduled; the activity task already with a worker is not told.          *)

CancelledFailure == <<"Workflow cancelled">>

Cancelled == [type |-> "cancelled"]

\* The instance runs as in Spec as long as nobody cancels it.
Running ==
    /\ ~cancelRequested
    /\ \/ Invoke
       \/ Await
       \/ Close
       \/ ActivityReturns
       \/ ActivityThrows
       \/ ActivityTimesOut
       \/ Restart

\* The instance is cancelled while the workflow code is suspended on a call
\* whose outcome is not recorded yet: the awaited promise rejects.
RequestCancel ==
    /\ ~cancelRequested
    /\ pc \in CallLabels
    /\ awaiting
    /\ ~Replaying
    /\ cancelRequested' = TRUE
    /\ LET n == OnFailure(pc, input, v, CancelledFailure) IN pc' = n.pc /\ v' = n.v
    /\ awaiting' = FALSE
    /\ UNCHANGED <<input, cursor, history, attempt, restarts, completions, deliveries,
                   retry, backoff>>
    /\ UNCHANGED <<dispatchVars, workerVars, serviceVars>>

\* The code reaches a call in the cancelled scope: the call rejects at once
\* and no activity is scheduled.
InvokeCancelled ==
    /\ cancelRequested
    /\ pc \in CallLabels
    /\ ~awaiting
    /\ LET n == OnFailure(pc, input, v, CancelledFailure) IN pc' = n.pc /\ v' = n.v
    /\ UNCHANGED <<input, awaiting, cursor, history, attempt, restarts, completions,
                   deliveries, retry, backoff>>
    /\ UNCHANGED envVars

\* The function of a cancelled instance ends: by the cancellation it lets
\* through, or with whatever it returns.
CloseCancelled ==
    /\ cancelRequested
    /\ pc \in {"Return", "Throw"}
    /\ history' = append(history,
                         IF pc = "Return" THEN Closed(v.result)
                         ELSE IF v.error = CancelledFailure THEN Cancelled
                         ELSE Faulted(v.error))
    /\ pc' = "Closed"
    /\ UNCHANGED <<input, awaiting, v, cursor, attempt, restarts, completions,
                   deliveries, retry, backoff>>
    /\ UNCHANGED envVars

\* The attempt that was with a worker when the instance was cancelled: its
\* body runs to any of its ends, or not at all; nothing of it is recorded
\* and it is not attempted again.
DetachedActivityEnds ==
    /\ cancelRequested
    /\ attempt > 0
    /\ LET c == IF Last(history).type = "scheduled" THEN Last(history)
                 ELSE history[Len(history) - 1]
       IN \E ran \in BOOLEAN : \E o \in activities(c.name, c.args) :
              deliveries' = IF ran THEN Delivered1(c.name, o) ELSE deliveries
    /\ attempt' = 0
    /\ backoff' = 0
    /\ UNCHANGED <<input, pc, awaiting, v, cursor, history, restarts, completions, retry>>
    /\ UNCHANGED envVars

CancelNext ==
    \/ Running
    \/ RequestCancel
    \/ InvokeCancelled
    \/ CloseCancelled
    \/ DetachedActivityEnds

CancelSpec == Init /\ [][CancelNext]_vars

(* C24: once the instance is cancelled, between two steps, the history gets *)
(* no record but the one that closes it as cancelled: no call is scheduled  *)
(* after the cancellation, the function returns no result, the instance     *)
(* goes through no further state, and no new attempt is started.  The       *)
(* attempt that was with a worker at that moment can still run and deliver. *)
CancellationStopsInstance ==
    [][ cancelRequested =>
          /\ cancelRequested'
          /\ history' \in {history, append(history, Cancelled)}
          /\ pc' # "Return"
          /\ attempt' \in {attempt, 0}
          /\ completions' = completions
      ]_vars

\* C24 witness: the instance was cancelled while the email send was with a
\* worker; it is closed as cancelled with no outcome of the send on record,
\* and the mail went out all the same.
CancellationStopsInstanceWitness ==
    /\ cancelRequested
    /\ Len(history) >= 2
    /\ Last(history) = Cancelled
    /\ history[Len(history) - 1].type = "scheduled"
    /\ history[Len(history) - 1].at = "SendEmail"
    /\ attempt = 0
    /\ deliveries["email"] = 1
    /\ pc = "Closed"

-----------------------------------------------------------------------------
(* worker.ts: one worker process and the tasks it runs at the same time *)

MaxBacklog == 2

MaxConcurrentActivityTaskExecutions == 10

MaxConcurrentWorkflowTaskExecutions == 10

TaskKinds == {"activity", "workflow"}

WorkerOptionsDefault ==
    [ maxConcurrentActivityTaskExecutions |-> 100,
      maxConcurrentWorkflowTaskExecutions |-> 40 ]

\* Worker.create({ ..., maxConcurrentActivityTaskExecutions: 10,
\*                      maxConcurrentWorkflowTaskExecutions: 10 })
WorkerOptions ==
    [ maxConcurrentActivityTaskExecutions |-> MaxConcurrentActivityTaskExecutions,
      maxConcurrentWorkflowTaskExecutions |-> MaxConcurrentWorkflowTaskExecutions ]

\* The worker takes a task of a kind only while it runs fewer of them than
\* its options allow.
HasFreeSlot(kind) ==
    slots[kind] < IF kind = "activity"
                  THEN WorkerOptions.maxConcurrentActivityTaskExecutions
                  ELSE WorkerOptions.maxConcurrentWorkflowTaskExecutions

WorkerInit ==
    /\ WorkflowIdle
    /\ clock = 0
    /\ executions = <<>>
    /\ queue = {}
    /\ held = <<>>
    /\ up = TRUE
    /\ slots = [kind \in TaskKinds |-> 0]
    /\ backlog = [kind \in TaskKinds |-> 0]
    /\ call = NoData
    /\ reply = NoData
    /\ cancelRequested = FALSE

WorkerIdle == UNCHANGED <<workflowVars, dispatchVars, serviceVars, cancelRequested>>

\* The instances that are running put one more task on the task queue.
Arrive(kind) ==
    /\ backlog[kind] < MaxBacklog
    /\ backlog' = [backlog EXCEPT ![kind] = @ + 1]
    /\ UNCHANGED slots
    /\ WorkerIdle

\* worker.run(): the worker takes a task from the queue and starts on it.
PollTask(kind) ==
    /\ backlog[kind] > 0
    /\ HasFreeSlot(kind)
    /\ backlog' = [backlog EXCEPT ![kind] = @ - 1]
    /\ slots' = [slots EXCEPT ![kind] = @ + 1]
    /\ WorkerIdle

\* A task the worker was running is done.
FinishTask(kind) ==
    /\ slots[kind] > 0
    /\ slots' = [slots EXCEPT ![kind] = @ - 1]
    /\ UNCHANGED backlog
    /\ WorkerIdle

WorkerNext ==
    \/ \E kind \in TaskKinds : Arrive(kind)
    \/ \E kind \in TaskKinds : PollTask(kind)
    \/ \E kind \in TaskKinds : FinishTask(kind)

WorkerSpec == WorkerInit /\ [][WorkerNext]_vars

(* C27: at every moment the worker runs at most 10 activity tasks (step     *)
(* executions) and at most 10 workflow tasks (decision evaluations), however *)
(* many tasks the running instances have put on the queue.                  *)
WorkerLimitsHold ==
    /\ slots["activity"] <= 10
    /\ slots["workflow"] <= 10

\* C27 witness: the worker runs 10 activity tasks and 10 workflow tasks, and
\* more of both kinds are waiting on the queue.
WorkerLimitsHoldWitness ==
    /\ slots["activity"] = 10
    /\ slots["workflow"] = 10
    /\ backlog["activity"] > 0
    /\ backlog["workflow"] > 0

-----------------------------------------------------------------------------
(* The traffic-fetch step on its own: fetchTrafficData called with a route, *)
(* over every value the mock can draw                                       *)

RandomRange == 60

\* Math.floor(Math.random() * 60)
BaseDelays == 0..(RandomRange - 1)

\* The routes the step is called with: places as given, padded, blank, empty.
ServiceRoutes ==
    [ origin : Places \cup {<<" ">> \o NewYork},
      destination : Places \cup {Philadelphia \o <<" ">>} ]

TrafficInit ==
    /\ WorkflowIdle
    /\ clock = 0
    /\ executions = <<>>
    /\ queue = {}
    /\ held = <<>>
    /\ up = TRUE
    /\ slots = <<>>
    /\ backlog = <<>>
    /\ call = NoData
    /\ reply = NoData
    /\ cancelRequested = FALSE

TrafficIdle == UNCHANGED <<workflowVars, dispatchVars, workerVars, cancelRequested>>

SourceFailure == <<"Google Maps API error">>

\* getRealTrafficData: the traffic source answers, or the request to it fails.
getRealTrafficData(route, baseDelayMinutes) ==
    { Return(getMockTrafficData(route, baseDelayMinutes)), Throw(SourceFailure) }

getTrafficDataRethrowing(route, baseDelayMinutes) ==
    getRealTrafficData(route, baseDelayMinutes)

\* getTrafficData: try { return await getRealTrafficData(route) }
\*                 catch { return getMockTrafficData(route) }
getTrafficDataAt(route, baseDelayMinutes) ==
    { IF o.threw THEN Return(getMockTrafficData(route, baseDelayMinutes)) ELSE o :
        o \in getRealTrafficData(route, baseDelayMinutes) }

\* The activity is called with a route.
FetchCalled ==
    /\ call = NoData
    /\ \E route \in ServiceRoutes : call' = [route |-> route, sourceCalls |-> 0]
    /\ UNCHANGED reply
    /\ TrafficIdle

\* fetchTrafficData: the route is validated; a route that fails throws, for
\* any other the service is asked and what it returns or throws is passed on.
FetchAnswers ==
    /\ call # NoData
    /\ reply = NoData
    /\ IF ~validateRoute(call.route)
       THEN /\ reply' = Throw(<<"Invalid route: Origin and destination are required">>)
            /\ UNCHANGED call
       ELSE /\ reply' \in UNION { getTrafficDataAt(call.route, d) : d \in BaseDelays }
            /\ call' = [call EXCEPT !.sourceCalls = @ + 1]
    /\ TrafficIdle

\* The caller has taken the answer.
FetchDone ==
    /\ reply # NoData
    /\ call' = NoData
    /\ reply' = NoData
    /\ TrafficIdle

TrafficNext ==
    \/ FetchCalled
    \/ FetchAnswers
    \/ FetchDone

TrafficSpec == TrafficInit /\ [][TrafficNext]_vars

\* The step has returned a snapshot.
Snapshot == reply # NoData /\ ~reply.threw

(* C28: the condition of every snapshot produced is the one the fixed bands *)
(* give for its estimatedDelayMinutes: below 15 light, 15 to 29 moderate,   *)
(* 30 to 44 heavy, 45 and above severe; so 14 is light, 15 and 29 moderate, *)
(* 30 and 44 heavy, 45 severe.                                              *)
ConditionFollowsBands ==
    Snapshot =>
        LET d == reply.value.estimatedDelayMinutes
            c == reply.value.trafficCondition
        IN /\ d < 15 => c = <<"light">>
           /\ (15 <= d /\ d <= 29) => c = <<"moderate">>
           /\ (30 <= d /\ d <= 44) => c = <<"heavy">>
           /\ d >= 45 => c = <<"severe">>
           /\ d = 14 => c = <<"light">>
           /\ d \in {15, 29} => c = <<"moderate">>
           /\ d \in {30, 44} => c = <<"heavy">>
           /\ d = 45 => c = <<"severe">>

\* C28 witness: a snapshot with a delay of 45 minutes, the lowest delay that
\* is severe.
ConditionFollowsBandsWitness ==
    /\ Snapshot
    /\ reply.value.estimatedDelayMinutes = 45
    /\ reply.value.trafficCondition = <<"severe">>

(* C29: every snapshot the traffic-fetch step returns has a delay of at     *)
(* least 0, a normal and a current duration above 0, one of the four        *)
(* conditions, a current duration not below the normal one when the delay   *)
(* is above 0, and the route of the call, character for character.          *)
SnapshotWellFormed ==
    Snapshot =>
        LET td == reply.value IN
        /\ td.estimatedDelayMinutes >= 0
        /\ td.normalDurationMinutes > 0
        /\ td.currentDurationMinutes > 0
        /\ td.trafficCondition \in {<<"light">>, <<"moderate">>, <<"heavy">>, <<"severe">>}
        /\ td.estimatedDelayMinutes > 0 =>
              td.currentDurationMinutes >= td.normalDurationMinutes
        /\ td.route = call.route

\* C29 witness: a snapshot with a positive delay, returned for a route whose
\* origin was given with a leading blank.
SnapshotWellFormedWitness ==
    /\ Snapshot
    /\ reply.value.estimatedDelayMinutes > 0
    /\ call.route.origin = <<" ">> \o NewYork
    /\ reply.value.route.origin = <<" ">> \o NewYork
    /\ reply.value.currentDurationMinutes > reply.value.normalDurationMinutes

-----------------------------------------------------------------------------
(* C30: every outcome a send step returns, by email or by SMS, carries a    *)
(* message id exactly when success is true and an error text exactly when   *)
(* success is false.  A failure inside the channel's send comes back as     *)
(* such an outcome: a send step that ends in a thrown error was given a     *)
(* request that validateRequest refuses, before the channel was called.     *)
OutcomeCarriesIdOrReason ==
    /\ \A r \in ResultsOf("sendDelayNotification") \cup ResultsOf("sendSMSNotification") :
          /\ r.success <=> r.messageId # <<>>
          /\ ~r.success <=> r.error # <<>>
    /\ \A name \in {"sendDelayNotification", "sendSMSNotification"} :
          \A i \in Invocations(name) :
              \A o \in activities(name, history[i].args) :
                  IF o.threw
                  THEN name = "sendDelayNotification"
                       /\ ~validateRequest(history[i].args.request)
                  ELSE /\ o.value.success <=> o.value.messageId # <<>>
                       /\ ~o.value.success <=> o.value.error # <<>>

\* C30 witness: the email send came back with success false and its reason
\* and no message id, the SMS send with success true and a message id and
\* no reason.
OutcomeCarriesIdOrReasonWitness ==
    /\ \E r \in ResultsOf("sendDelayNotification") :
          ~r.success /\ r.error = EmailFailure /\ r.messageId = <<>>
    /\ \E r \in ResultsOf("sendSMSNotification") :
          r.success /\ r.messageId # <<>> /\ r.error = <<>>

-----------------------------------------------------------------------------
\* A text with something in it besides blanks.
NonBlank(s) == \E i \in 1..Len(s) : s[i] # " "

(* C31: the traffic-fetch step accepts a route exactly when its origin and  *)
(* its destination both hold something besides whitespace.  For any other   *)
(* route it fails with the 'Invalid route' error and the traffic service    *)
(* has not been asked; for an accepted route the service has been asked     *)
(* once and the step returns the snapshot it gave, for that route.          *)
RouteAcceptedIffNonBlank ==
    reply # NoData =>
        IF NonBlank(call.route.origin) /\ NonBlank(call.route.destination)
        THEN /\ ~reply.threw
             /\ call.sourceCalls = 1
             /\ \E d \in BaseDelays : reply.value = getMockTrafficData(call.route, d)
        ELSE /\ reply.threw
             /\ reply.error = <<"Invalid route: Origin and destination are required">>
             /\ call.sourceCalls = 0

\* C31 witness: a route whose origin is a single blank was refused with the
\* 'Invalid route' error, and the service was not asked.
RouteAcceptedIffNonBlankWitness ==
    /\ reply # NoData
    /\ call.route.origin = <<" ">>
    /\ NonBlank(call.route.destination)
    /\ reply.threw
    /\ call.sourceCalls = 0

-----------------------------------------------------------------------------
\* What the claim asks of a request for it to be accepted.
Acceptable(request) ==
    /\ includes(request.customerEmail, "@")
    /\ request.subject # <<>>
    /\ request.message # <<>>
    /\ request.delayMinutes > 0

(* C32: the email send step accepts a request exactly when the contact      *)
(* holds an '@', subject and message are not empty and delayMinutes is      *)
(* above 0.  For any other request every run of its body throws, nothing is *)
(* delivered by email, the SMS send is never scheduled and the instance,    *)
(* once terminal, is Errored.  The subject of every request the workflow    *)
(* builds ends in '<delayMinutes> Minutes'.                                 *)
InvalidRequestEndsErrored ==
    \A i \in Invocations("sendDelayNotification") :
        LET request == history[i].args.request IN
        /\ \A o \in activities("sendDelayNotification", history[i].args) :
              o.threw <=> ~Acceptable(request)
        /\ Len(request.subject) >= 2
        /\ SubSeq(request.subject, Len(request.subject) - 1, Len(request.subject)) =
              <<ToString(request.delayMinutes), " Minutes">>
        /\ ~Acceptable(request) =>
              /\ deliveries["email"] = 0
              /\ ScheduledAt("SendSMS") = {}
              /\ Terminal => TerminalState = "Errored"

(* C33: whenever the terminal result has notificationSent false, no send    *)
(* step of the instance (email or SMS) returned success true; a logging     *)
(* step failing after a successful send cannot end the instance with a      *)
(* result that reports notificationSent false.                              *)
UnsentResultMeansNoSendSucceeded ==
    (Returned /\ ~Last(history).result.notificationSent) =>
        \A r \in ResultsOf("sendDelayNotification") \cup ResultsOf("sendSMSNotification") :
            ~r.success

\* The calls of an activity that resolved, each with the value it resolved with.
Resolved(name) ==
    { i \in Invocations(name) : i < Len(history) /\ history[i + 1].type = "completed" }

(* C34: whenever the terminal result has notificationSent true, the fetch   *)
(* step returned a delay strictly above the threshold, the email or the SMS *)
(* send returned success true, and the SMS send was invoked only after the  *)
(* email send had returned success false.                                   *)
SentResultMeansSendSucceeded ==
    (Returned /\ Last(history).result.notificationSent) =>
        /\ FetchedDelays # {}
        /\ \A d \in FetchedDelays : d > input.delayThresholdMinutes
        /\ \E r \in ResultsOf("sendDelayNotification") \cup ResultsOf("sendSMSNotification") :
              r.success
        /\ \A j \in Invocations("sendSMSNotification") :
              \E i \in Resolved("sendDelayNotification") :
                  i + 1 < j /\ ~history[i + 1].value.success

\* C34 witness: a notification is reported and it went out by SMS, after the
\* email send had answered success false.
SentResultMeansSendSucceededWitness ==
    /\ Returned
    /\ Last(history).result.notificationSent
    /\ Invocations("sendSMSNotification") # {}
    /\ \E r \in ResultsOf("sendSMSNotification") : r.success

(* C35: in every result returned outside the error handler (NoActionNeeded, *)
(* Completed, Failed) delayMinutes is the fetched estimatedDelayMinutes and *)
(* delayDetected is true exactly when that delay exceeds the threshold; the *)
(* error field is present exactly in the Failed and the Errored results.    *)
ResultFieldsFollowFetch ==
    Returned =>
        LET result == Last(history).result IN
        /\ TerminalState \in {"NoActionNeeded", "Completed", "Failed"} =>
              /\ FetchedDelays = {result.delayMinutes}
              /\ result.delayDetected <=>
                    result.delayMinutes > input.delayThresholdMinutes
        /\ result.error # <<>> <=> TerminalState \in {"Failed", "Errored"}

\* C35 witness: a Failed result: the fetched delay of 45 against a threshold of
\* 30, delayDetected true, and an error text.
ResultFieldsFollowFetchWitness ==
    /\ TerminalState = "Failed"
    /\ input.delayThresholdMinutes = 30
    /\ FetchedDelays = {45}
    /\ Last(history).result.delayDetected
    /\ Last(history).result.error # <<>>

-----------------------------------------------------------------------------
(* Termination *)

\* The worker polls: a workflow task that can run is run in the end.  Every
\* attempt handed to a worker reports or is timed out by startToCloseTimeout.
\* Nothing forces the process to stop, so Restart has no fairness.
FairSpec ==
    /\ Spec
    /\ WF_vars(Invoke)
    /\ WF_vars(Await)
    /\ WF_vars(Close)
    /\ WF_vars(ActivityReturns \/ ActivityThrows \/ ActivityTimesOut)

(* C36: under fair scheduling, and with every attempt handed out in the end *)
(* returning or failing, every submitted instance reaches a terminal state  *)
(* (it returned a result or failed): the workflow schedules each of its     *)
(* steps at most once and a step never runs past its 3rd attempt.           *)
EveryInstanceTerminates ==
    /\ [](/\ \A l \in CallLabels : Cardinality(ScheduledAt(l)) <= 1
          /\ attempt <= MaximumAttempts)
    /\ <>Terminal

\* C36 witness: an instance that got to its end through a step on its 3rd
\* attempt and both sends.
EveryInstanceTerminatesWitness ==
    /\ Terminal
    /\ ScheduledAt("SendSMS") # {}
    /\ \E l \in CallLabels : ScheduledAt(l) # {} /\ completions[l] = 0

====
